---- MODULE Spec2Model ----
(***************************************************************************)
(* Analysis orchestration of the chess-coaching backend.                   *)
(*                                                                         *)
(* The module-level EngineService (routers/analyze.py:21) wraps one        *)
(* Stockfish handle.  Four request handlers of routers/analyze.py and      *)
(* direct callers of EngineService.get_best_move and is_move_correct use   *)
(* it.  All handlers are coroutines of one asyncio event loop: a handler   *)
(* runs from one await to the next without giving up the loop.             *)
(*                                                                         *)
(* External libraries are modelled by what they do on the inputs below:    *)
(*   python-chess  chess.Board(fen), Board.is_valid, Board.is_game_over,   *)
(*                 chess.pgn.read_game(handle) (reads handle.readline())   *)
(*   stockfish     Stockfish.is_fen_valid (syntax check, then a search on  *)
(*                 a temporary engine process: False when no best move),   *)
(*                 set_fen_position, set_depth, get_evaluation,            *)
(*                 get_best_move (None when the side to move has no move), *)
(*                 get_top_moves(n); every search runs at the handle's     *)
(*                 current depth setting.                                  *)
(***************************************************************************)
EXTENDS Integers, Sequences, FiniteSets, TLC

VARIABLES
    pc,         \* pc[c]: position of caller c's handler
    req,        \* req[c]: the request caller c made
    resp,       \* resp[c]: the response caller c got (HTTP) / last websocket reply
    ret,        \* ret[c]: outcome of the last EngineService call made for c
    cur,        \* cur[c]: the EngineService call in progress for c
    plan,       \* plan[c]: Stockfish commands the call in progress has still to issue
    loop,       \* caller whose coroutine holds the event loop, 0 when it is idle
    sfAlive,    \* the Stockfish process of the shared handle is running
    sfFen,      \* position last set on the shared handle
    sfDepth,    \* depth setting of the shared handle
    engineLog,  \* commands the shared Stockfish handle received, in order
    ncall,      \* ncall[c]: EngineService calls started for c
    nmsg,       \* nmsg[c]: websocket messages caller c's connection delivered
    abandoned,  \* abandoned[c]: c's client went away while its request was in flight
    sfHung,     \* the Stockfish process has stopped answering
    elo,        \* the EloService object: its k_factor and default_rating
    eloCall,    \* the last EloService call: its arguments and what it returned
    wsLog       \* wsLog[c]: what c's websocket handler received, sent and closed, in order

vars == <<pc, req, resp, ret, cur, plan, loop, sfAlive, sfFen, sfDepth,
          engineLog, ncall, nmsg, abandoned, sfHung, elo, eloCall, wsLog>>

----------------------------------------------------------------------------
(* Bounds *)

NumCallers == 2
MaxMsgs == 1
MaxPlies == 4

Callers == 1..NumCallers

----------------------------------------------------------------------------
(* Program constants *)

DefaultDepth == 18
TopMovesAsked == 3
MinDepth == 5
MaxDepth == 30
MinMultiPv == 1
MaxMultiPv == 5
DefaultMultiPv == 3
MinInterval == 1
MaxInterval == 10

----------------------------------------------------------------------------
(* Positions.  Each name stands for one concrete FEN:                      *)
(*   start      rnbqkbnr/pppppppp/8/8/8/8/PPPPPPPP/RNBQKBNR w KQkq - 0 1   *)
(*   mate       rnb1kbnr/pppp1ppp/8/4p3/6Pq/5P2/PPPPP2P/RNBQKBNR w KQkq - 1 3 *)
(*   kvk        8/8/8/4k3/8/8/8/4K3 w - - 0 1                              *)
(*   ninepawns  rnbqkbnr/pppppppp/8/8/8/P7/PPPPPPPP/RNBQKBNR w KQkq - 0 1  *)
(*   garbage    not-a-fen                                                  *)
(* start is an ordinary position; mate is checkmate (no legal move); kvk   *)
(* is a draw by insufficient material in which the king still has moves;   *)
(* ninepawns parses but has nine white pawns; garbage does not parse.      *)

Fens == {"start", "mate", "kvk", "ninepawns", "garbage"}
NoFen == "none"

\* chess.Board(fen) raises ValueError
BoardRaises(fen) == fen = "garbage"

\* chess.Board(fen).is_valid()
BoardIsValid(fen) == fen \in {"start", "mate", "kvk"}

\* chess.Board(fen).is_game_over()
IsGameOver(fen) == fen \in {"mate", "kvk"}

\* the board-legality check of a FEN: it parses and the position is legal
BoardLegal(fen) == ~BoardRaises(fen) /\ BoardIsValid(fen)

\* Stockfish.is_fen_valid(fen): syntax, then whether a search yields a move
SfFenValid(fen) == fen \in {"start", "kvk", "ninepawns"}

----------------------------------------------------------------------------
(* Moves are strings over a small alphabet, kept as character sequences so *)
(* that str.lower() is computed.                                           *)

NoMove == <<>>
e2e4 == <<"e", "2", "e", "4">>
E2E4 == <<"E", "2", "E", "4">>
d2d4 == <<"d", "2", "d", "4">>
D2d4 == <<"D", "2", "d", "4">>
e1e2 == <<"e", "1", "e", "2">>

EngineMoves == {e2e4, d2d4}
CandidateMoves == {e2e4, E2E4, d2d4, D2d4, e1e2}

LowerChar(ch) ==
    CASE ch = "E" -> "e"
      [] ch = "D" -> "d"
      [] OTHER -> ch

Lower(s) == [i \in DOMAIN s |-> LowerChar(s[i])]

\* answers Stockfish.get_best_move() can give for the position set
BestAnswers(fen) ==
    CASE fen = "mate" -> {NoMove}
      [] fen = "kvk" -> {e1e2}
      [] fen = "garbage" -> {e2e4, NoMove}
      [] fen = "ninepawns" -> {d2d4}
      [] OTHER -> EngineMoves

----------------------------------------------------------------------------
(* Request inputs *)

DepthInputs == {MinDepth, DefaultDepth, MaxDepth + 1}

\* <<depth, multipv>> of a position-analysis request
PositionParamInputs ==
    {<<DefaultDepth, DefaultMultiPv>>, <<DefaultDepth, MinMultiPv>>,
     <<MaxDepth + 1, DefaultMultiPv>>, <<DefaultDepth, MaxMultiPv + 1>>}

\* <<pgn, plies, interval, depth, multipv>> of a game-analysis request.  The
\* game text is wellformed (plies legal moves), empty, unparsable (no token of
\* it is a move) or illegalmove (plies legal moves, then an illegal one).
GameParamInputs ==
    {<<"wellformed", p, n, DefaultDepth, DefaultMultiPv>> :
        p \in 0..MaxPlies, n \in {MinInterval, 2, 3}}
    \cup {<<"empty", 0, MinInterval, DefaultDepth, DefaultMultiPv>>,
          <<"unparsable", 0, MinInterval, DefaultDepth, DefaultMultiPv>>,
          <<"illegalmove", 2, MinInterval, DefaultDepth, DefaultMultiPv>>,
          <<"wellformed", MaxPlies, MinInterval - 1, DefaultDepth, DefaultMultiPv>>,
          <<"wellformed", MaxPlies, MinInterval, MaxDepth + 1, DefaultMultiPv>>,
          <<"wellformed", MaxPlies, MinInterval, DefaultDepth, MaxMultiPv + 1>>}

\* what a websocket client sends: the depth of the connection, and messages:
\* a position_analysis message with one of these FENs or without a FEN, a
\* message of another type, or an invalid message
WsDepthInputs == {MinDepth, MaxDepth + 1}

WsFenInputs == {"start", "ninepawns", "garbage"}

WsMsgInputs == WsFenInputs \cup {"nofen", "othertype", "invalid"}

DepthInRange(d) == d >= MinDepth /\ d <= MaxDepth
MultiPvInRange(m) == m >= MinMultiPv /\ m <= MaxMultiPv
IntervalInRange(n) == n >= MinInterval /\ n <= MaxInterval

NoReq == [kind |-> "idle", fen |-> NoFen, depth |-> 0, multipv |-> 0,
          move |-> NoMove, pgn |-> "none", plies |-> 0, interval |-> 0]

NoResp == [status |-> 0, detail |-> "none", best |-> NoMove, ntop |-> 0,
           depth |-> 0, report |-> <<>>, walked |-> 0, failedPly |-> 0,
           sent |-> FALSE]

NoCall == [svc |-> "none", fen |-> NoFen, depth |-> 0, move |-> NoMove,
           exc |-> "none", best |-> NoMove, ntop |-> 0]

NoRet == [svc |-> "none", fen |-> NoFen, depth |-> 0, move |-> NoMove,
          exc |-> "none", best |-> NoMove, ntop |-> 0, correct |-> FALSE]

----------------------------------------------------------------------------
(* The event loop.  A coroutine gives up the loop only at an await; the    *)
(* pc values below are the positions at which a handler is suspended in    *)
(* one (or has not started, or has finished).                              *)

\* as if the engine calls were awaited too
AwaitPointsPreempt == {"idle", "ws_accept", "ws_receive", "ws_send",
                       "ws_error", "ws_close", "done",
                       "ws_call", "lg_best", "lg_analyze", "bm_call", "jd_call"}

AwaitPoints == {"idle", "ws_accept", "ws_receive", "ws_send", "ws_error",
                "ws_close", "done"}

Runnable(c) == IF pc[c] \in AwaitPoints THEN loop = 0 ELSE loop = c

LoopAfter(c, p) == IF p \in AwaitPoints THEN 0 ELSE c

----------------------------------------------------------------------------
(* EngineService *)

\* keyword arguments EngineService.analyze_position accepts
SvcAnalyzeKwargs == {"fen", "depth"}

AnalyzePositionBegin(fen, depth) ==
    IF ~SfFenValid(fen)
    THEN [call |-> [NoCall EXCEPT !.svc = "analyze_position", !.fen = fen,
                                  !.depth = depth, !.exc = "ValueError"],
          cmds |-> <<>>]
    ELSE [call |-> [NoCall EXCEPT !.svc = "analyze_position", !.fen = fen,
                                  !.depth = depth],
          cmds |-> <<"set_fen", "eval", "best", "top">>]

\* get_best_move without its game-over test
GetBestMoveBeginNoTerminalTest(fen, depth) ==
    IF BoardRaises(fen)
    THEN [call |-> [NoCall EXCEPT !.svc = "get_best_move", !.fen = fen,
                                  !.depth = depth, !.exc = "ValueError"],
          cmds |-> <<>>]
    ELSE [call |-> [NoCall EXCEPT !.svc = "get_best_move", !.fen = fen,
                                  !.depth = depth],
          cmds |-> <<"set_fen", "set_depth", "best">>]

GetBestMoveBegin(fen, depth) ==
    IF BoardRaises(fen)
    THEN [call |-> [NoCall EXCEPT !.svc = "get_best_move", !.fen = fen,
                                  !.depth = depth, !.exc = "ValueError"],
          cmds |-> <<>>]
    ELSE IF IsGameOver(fen)
    THEN [call |-> [NoCall EXCEPT !.svc = "get_best_move", !.fen = fen,
                                  !.depth = depth],
          cmds |-> <<>>]
    ELSE [call |-> [NoCall EXCEPT !.svc = "get_best_move", !.fen = fen,
                                  !.depth = depth],
          cmds |-> <<"set_fen", "set_depth", "best">>]

IsMoveCorrectBegin(fen, move) ==
    [call |-> [NoCall EXCEPT !.svc = "is_move_correct", !.fen = fen,
                             !.move = move],
     cmds |-> <<"set_fen", "best">>]

\* is_move_correct comparing the strings as given
IsMoveCorrectValueExact(call) ==
    IF call.exc # "none" THEN FALSE
    ELSE IF call.best = NoMove THEN FALSE
    ELSE call.move = call.best

\* the value is_move_correct returns once its commands are done; a failed
\* command, or None.lower() on a missing best move, is caught and gives False
IsMoveCorrectValue(call) ==
    IF call.exc # "none" THEN FALSE
    ELSE IF call.best = NoMove THEN FALSE
    ELSE Lower(call.move) = Lower(call.best)

\* every call returning a value, whatever happened in it
CallReturnSwallowing(call) ==
    [svc |-> call.svc, fen |-> call.fen, depth |-> call.depth,
     move |-> call.move,
     exc |-> "none",
     best |-> call.best, ntop |-> call.ntop,
     correct |-> IF call.svc = "is_move_correct"
                 THEN IsMoveCorrectValue(call) ELSE FALSE]

\* what a finished call hands back to its caller
CallReturn(call) ==
    [svc |-> call.svc, fen |-> call.fen, depth |-> call.depth,
     move |-> call.move,
     exc |-> IF call.svc = "is_move_correct" THEN "none" ELSE call.exc,
     best |-> call.best, ntop |-> call.ntop,
     correct |-> IF call.svc = "is_move_correct"
                 THEN IsMoveCorrectValue(call) ELSE FALSE]

\* lengths Stockfish.get_top_moves(TopMovesAsked) can return for the position set
TopAnswers(fen) ==
    CASE fen = "mate" -> {0}
      [] fen = "garbage" -> {0, TopMovesAsked}
      [] OTHER -> {TopMovesAsked}

LogEntry(c, op) ==
    [caller |-> c, call |-> ncall[c], svc |-> cur[c].svc, op |-> op,
     fen |-> IF op = "set_fen" THEN cur[c].fen ELSE sfFen,
     depth |-> IF op = "set_depth" THEN cur[c].depth ELSE sfDepth,
     arg |-> cur[c].depth]

\* Stockfish.set_depth(depth) stores the depth in the handle for the searches
\* to come; every other command writes to the process and reads its answer
TalksToProcess(op) == op # "set_depth"

\* one Stockfish command of the call in progress for c.  The handle writes the
\* command and reads the answer with a blocking readline(): while the process
\* is running but silent the read does not return, and once the process has
\* exited the read fails.
EngineCmd(c) ==
    /\ plan[c] # <<>>
    /\ Runnable(c)
    /\ TalksToProcess(Head(plan[c])) => ~(sfAlive /\ sfHung)
    /\ LET op == Head(plan[c]) IN
       IF TalksToProcess(op) /\ ~sfAlive
       THEN /\ cur' = [cur EXCEPT ![c].exc = "StockfishException"]
            /\ plan' = [plan EXCEPT ![c] = <<>>]
            /\ UNCHANGED <<sfFen, sfDepth, engineLog>>
       ELSE /\ plan' = [plan EXCEPT ![c] = Tail(plan[c])]
            /\ engineLog' = Append(engineLog, LogEntry(c, op))
            /\ sfFen' = IF op = "set_fen" THEN cur[c].fen ELSE sfFen
            /\ sfDepth' = IF op = "set_depth" THEN cur[c].depth ELSE sfDepth
            /\ CASE op = "best" ->
                      \E m \in BestAnswers(sfFen) :
                          cur' = [cur EXCEPT ![c].best = m]
                 [] op = "top" ->
                      \E n \in TopAnswers(sfFen) :
                          cur' = [cur EXCEPT ![c].ntop = n]
                 [] OTHER -> UNCHANGED cur
    /\ loop' = LoopAfter(c, pc[c])
    /\ UNCHANGED <<pc, req, resp, ret, sfAlive, ncall, nmsg>>
    /\ UNCHANGED <<abandoned, sfHung, elo, eloCall, wsLog>>

\* the Stockfish process stops answering while a call is using it
EngineHang ==
    /\ sfAlive
    /\ ~sfHung
    /\ \E c \in Callers : plan[c] # <<>>
    /\ sfHung' = TRUE
    /\ UNCHANGED <<pc, req, resp, ret, cur, plan, loop, sfAlive, sfFen, sfDepth,
                   engineLog, ncall, nmsg, abandoned, elo, eloCall, wsLog>>

\* the Stockfish process dies
EngineCrash ==
    /\ sfAlive
    /\ sfAlive' = FALSE
    /\ UNCHANGED <<pc, req, resp, ret, cur, plan, loop, sfFen, sfDepth,
                   engineLog, ncall, nmsg>>
    /\ UNCHANGED <<abandoned, sfHung, elo, eloCall, wsLog>>

----------------------------------------------------------------------------
(* POST /analyze/position *)

\* keyword arguments the router passes to EngineService.analyze_position
PositionCallKwargs == {"fen", "depth", "multipv", "lines"}

\* request validation of PositionAnalysisRequest (depth carries no bounds)
PositionRequestValid(depth, multipv) == MultiPvInRange(multipv)

PositionResponse(fen, depth, multipv) ==
    IF ~PositionRequestValid(depth, multipv)
    THEN [NoResp EXCEPT !.status = 422, !.detail = "validation", !.sent = TRUE]
    ELSE IF BoardRaises(fen) \/ ~BoardIsValid(fen)
    THEN \* the 400 raised inside the try block is caught by its except clause
         [NoResp EXCEPT !.status = 500,
                        !.detail = "Error analyzing position: 400: Invalid FEN",
                        !.sent = TRUE]
    ELSE IF ~(PositionCallKwargs \subseteq SvcAnalyzeKwargs)
    THEN [NoResp EXCEPT !.status = 500,
                        !.detail = "Error analyzing position: TypeError",
                        !.sent = TRUE]
    ELSE \* AnalysisResponse is built without its required depth field
         [NoResp EXCEPT !.status = 500,
                        !.detail = "Error analyzing position: ValidationError",
                        !.sent = TRUE]

PositionRequest(c) ==
    /\ pc[c] = "idle"
    /\ Runnable(c)
    /\ \E fen \in Fens, par \in PositionParamInputs :
          /\ req' = [req EXCEPT ![c] = [NoReq EXCEPT !.kind = "position",
                                        !.fen = fen, !.depth = par[1],
                                        !.multipv = par[2]]]
          /\ resp' = [resp EXCEPT ![c] = PositionResponse(fen, par[1], par[2])]
    /\ pc' = [pc EXCEPT ![c] = "done"]
    /\ loop' = LoopAfter(c, "done")
    /\ UNCHANGED <<ret, cur, plan, sfAlive, sfFen, sfDepth, engineLog, ncall,
                   nmsg>>
    /\ UNCHANGED <<abandoned, sfHung, elo, eloCall, wsLog>>

----------------------------------------------------------------------------
(* POST /analyze/game *)

\* what analyze_game hands to chess.pgn.read_game: request.pgn.split('\n')
PgnHandle == "list"

\* keyword arguments the router passes to EngineService.analyze_position
GameCallKwargs == {"fen", "depth", "multipv"}

GameRequestValid(depth, multipv, interval) ==
    DepthInRange(depth) /\ MultiPvInRange(multipv) /\ IntervalInRange(interval)

\* chess.pgn.read_game(handle): reads handle.readline(), which a list lacks.
\* On a file it returns None at the end of the input, and otherwise a game
\* holding the moves it could read: a token that is no legal move is recorded
\* in game.errors and ends the main line, no exception is raised.
ReadGame(handle, pgn, plies) ==
    IF handle # "file"
    THEN [exc |-> "AttributeError", game |-> FALSE, plies |-> 0]
    ELSE IF pgn = "empty"
    THEN [exc |-> "none", game |-> FALSE, plies |-> 0]
    ELSE IF pgn = "unparsable"
    THEN [exc |-> "none", game |-> TRUE, plies |-> 0]
    ELSE [exc |-> "none", game |-> TRUE, plies |-> plies]

ReportEntry(ply) ==
    [ply |-> ply, move_number |-> (ply + 1) \div 2,
     move_color |-> IF ply % 2 = 1 THEN "white" ELSE "black"]

\* the loop over game.mainline_moves(), from ply on
RECURSIVE GameLoop(_, _, _, _)
GameLoop(ply, plies, interval, st) ==
    IF ply > plies THEN st
    ELSE LET pushed == [st EXCEPT !.walked = ply] IN
         IF ply % interval # 0
         THEN GameLoop(ply + 1, plies, interval, pushed)
         ELSE IF ~(GameCallKwargs \subseteq SvcAnalyzeKwargs)
         THEN [pushed EXCEPT !.exc = "TypeError", !.failedPly = ply]
         ELSE GameLoop(ply + 1, plies, interval,
                       [pushed EXCEPT !.report = Append(@, ReportEntry(ply))])

AnalyzeGameResponse(pgn, plies, interval, depth, multipv) ==
    IF ~GameRequestValid(depth, multipv, interval)
    THEN [NoResp EXCEPT !.status = 422, !.detail = "validation", !.sent = TRUE]
    ELSE LET g == ReadGame(PgnHandle, pgn, plies) IN
         IF g.exc # "none"
         THEN [NoResp EXCEPT !.status = 400,
                             !.detail = "Error analyzing game: AttributeError",
                             !.sent = TRUE]
         ELSE IF ~g.game
         THEN [NoResp EXCEPT !.status = 400,
                             !.detail = "Error analyzing game: Invalid PGN",
                             !.sent = TRUE]
         ELSE LET st == GameLoop(1, g.plies, interval,
                                 [report |-> <<>>, walked |-> 0,
                                  exc |-> "none", failedPly |-> 0]) IN
              IF st.exc # "none"
              THEN \* the detail is str(e): it does not name the ply
                   [NoResp EXCEPT !.status = 400,
                                  !.detail = "Error analyzing game: TypeError",
                                  !.walked = st.walked, !.sent = TRUE]
              ELSE [NoResp EXCEPT !.status = 200, !.detail = "success",
                                  !.report = st.report, !.walked = st.walked,
                                  !.sent = TRUE]

\* the request arrives: the framework validates it and, if it is valid,
\* starts the handler, which has no await and so keeps the event loop
GameRequest(c) ==
    /\ pc[c] = "idle"
    /\ Runnable(c)
    /\ \E par \in GameParamInputs :
          /\ req' = [req EXCEPT ![c] = [NoReq EXCEPT !.kind = "game",
                                        !.pgn = par[1], !.plies = par[2],
                                        !.interval = par[3],
                                        !.depth = par[4], !.multipv = par[5]]]
          /\ IF GameRequestValid(par[4], par[5], par[3])
             THEN /\ pc' = [pc EXCEPT ![c] = "gm_run"]
                  /\ resp' = resp
             ELSE /\ pc' = [pc EXCEPT ![c] = "done"]
                  /\ resp' = [resp EXCEPT ![c] =
                                 AnalyzeGameResponse(par[1], par[2], par[3],
                                                     par[4], par[5])]
    /\ loop' = LoopAfter(c, pc'[c])
    /\ UNCHANGED <<ret, cur, plan, sfAlive, sfFen, sfDepth, engineLog, ncall,
                   nmsg>>
    /\ UNCHANGED <<abandoned, sfHung, elo, eloCall, wsLog>>

\* the handler runs to its return or to its except clause; nothing in it
\* looks at whether the client is still there
GameReturn(c) ==
    /\ pc[c] = "gm_run"
    /\ Runnable(c)
    /\ resp' = [resp EXCEPT ![c] =
                   AnalyzeGameResponse(req[c].pgn, req[c].plies, req[c].interval,
                                       req[c].depth, req[c].multipv)]
    /\ pc' = [pc EXCEPT ![c] = "done"]
    /\ loop' = LoopAfter(c, "done")
    /\ UNCHANGED <<req, ret, cur, plan, sfAlive, sfFen, sfDepth, engineLog,
                   ncall, nmsg, abandoned, sfHung, elo, eloCall, wsLog>>

\* positions of the websocket handler between accept() and close()
WsOpen == {"ws_receive", "ws_call", "ws_send", "ws_error"}

\* the client of a game analysis in flight, or of an open websocket, goes away
Abandon(c) ==
    /\ pc[c] \in {"gm_run"} \cup WsOpen
    /\ ~abandoned[c]
    /\ abandoned' = [abandoned EXCEPT ![c] = TRUE]
    /\ UNCHANGED <<pc, req, resp, ret, cur, plan, loop, sfAlive, sfFen, sfDepth,
                   engineLog, ncall, nmsg, sfHung, elo, eloCall, wsLog>>

----------------------------------------------------------------------------
(* Starting and finishing an EngineService call for caller c *)

BeginCall(c, b) ==
    /\ cur' = [cur EXCEPT ![c] = b.call]
    /\ plan' = [plan EXCEPT ![c] = b.cmds]
    /\ ncall' = [ncall EXCEPT ![c] = @ + 1]

----------------------------------------------------------------------------
(* websocket /analyze/ws/analyze *)

WsConnect(c) ==
    /\ pc[c] = "idle"
    /\ Runnable(c)
    /\ \E depth \in WsDepthInputs :
          /\ req' = [req EXCEPT ![c] = [NoReq EXCEPT !.kind = "ws",
                                        !.depth = depth]]
          /\ IF DepthInRange(depth)
             THEN /\ pc' = [pc EXCEPT ![c] = "ws_accept"]
                  /\ resp' = resp
             ELSE /\ pc' = [pc EXCEPT ![c] = "done"]
                  /\ resp' = [resp EXCEPT ![c] =
                                 [NoResp EXCEPT !.status = 1008,
                                                !.detail = "validation",
                                                !.sent = TRUE]]
    /\ loop' = LoopAfter(c, pc'[c])
    /\ UNCHANGED <<ret, cur, plan, sfAlive, sfFen, sfDepth, engineLog, ncall,
                   nmsg>>
    /\ UNCHANGED <<abandoned, sfHung, elo, eloCall, wsLog>>

WsAccept(c) ==
    /\ pc[c] = "ws_accept"
    /\ Runnable(c)
    /\ pc' = [pc EXCEPT ![c] = "ws_receive"]
    /\ loop' = LoopAfter(c, "ws_receive")
    /\ UNCHANGED <<req, resp, ret, cur, plan, sfAlive, sfFen, sfDepth,
                   engineLog, ncall, nmsg>>
    /\ UNCHANGED <<abandoned, sfHung, elo, eloCall, wsLog>>

\* messages the connection of caller c delivers at most
MsgCap(c) == IF c = 1 THEN MaxMsgs + 1 ELSE MaxMsgs

WsEvent(ev, msg, type) == [ev |-> ev, msg |-> msg, type |-> type]

\* receive_json() delivers a message; the handler runs up to its next await:
\* the send_json of the reply (ws_send), the send_json of the error message in
\* "except Exception" (ws_error: the message is no WSAnalysisRequest), or
\* receive_json again (a message of another type)
WsReceive(c) ==
    /\ pc[c] = "ws_receive"
    /\ Runnable(c)
    /\ nmsg[c] < MsgCap(c)
    /\ nmsg' = [nmsg EXCEPT ![c] = @ + 1]
    /\ \E m \in WsMsgInputs :
          /\ wsLog' = [wsLog EXCEPT ![c] =
                           Append(@, WsEvent("received", m, "none"))]
          /\ \/ /\ m \in WsFenInputs
                /\ req' = [req EXCEPT ![c].fen = m]
                /\ BeginCall(c, AnalyzePositionBegin(m, req[c].depth))
                /\ pc' = [pc EXCEPT ![c] = "ws_call"]
                /\ resp' = resp
             \/ /\ m = "nofen"
                /\ req' = [req EXCEPT ![c].fen = NoFen]
                /\ resp' = [resp EXCEPT ![c] =
                               [NoResp EXCEPT !.detail = "error: Missing FEN"]]
                /\ pc' = [pc EXCEPT ![c] = "ws_send"]
                /\ UNCHANGED <<cur, plan, ncall>>
             \/ /\ m = "othertype"
                /\ req' = [req EXCEPT ![c].fen = NoFen]
                /\ pc' = pc
                /\ UNCHANGED <<resp, cur, plan, ncall>>
             \/ /\ m = "invalid"
                /\ req' = [req EXCEPT ![c].fen = NoFen]
                /\ resp' = [resp EXCEPT ![c] =
                               [NoResp EXCEPT !.detail = "error: invalid message"]]
                /\ pc' = [pc EXCEPT ![c] = "ws_error"]
                /\ UNCHANGED <<cur, plan, ncall>>
    /\ loop' = LoopAfter(c, pc'[c])
    /\ UNCHANGED <<ret, sfAlive, sfFen, sfDepth, engineLog>>
    /\ UNCHANGED <<abandoned, sfHung, elo, eloCall>>

\* engine_service.analyze_position returned, and the result is given to
\* send_json, or it raised, and "except Exception" sends an error message
WsCallReturn(c) ==
    /\ pc[c] = "ws_call"
    /\ Runnable(c)
    /\ plan[c] = <<>>
    /\ ret' = [ret EXCEPT ![c] = CallReturn(cur[c])]
    /\ resp' = [resp EXCEPT ![c] =
                   IF cur[c].exc # "none"
                   THEN [NoResp EXCEPT !.detail = "error: exception"]
                   ELSE [NoResp EXCEPT !.detail = "analysis_result",
                                       !.best = cur[c].best,
                                       !.ntop = cur[c].ntop,
                                       !.depth = cur[c].depth]]
    /\ cur' = [cur EXCEPT ![c] = NoCall]
    /\ pc' = [pc EXCEPT ![c] = IF cur[c].exc # "none" THEN "ws_error"
                                ELSE "ws_send"]
    /\ loop' = LoopAfter(c, pc'[c])
    /\ UNCHANGED <<req, plan, sfAlive, sfFen, sfDepth, engineLog, ncall, nmsg>>
    /\ UNCHANGED <<abandoned, sfHung, elo, eloCall, wsLog>>

\* The handler leaves the loop and "finally" calls websocket.close(): the
\* close message is handed to the server and the handler waits in close()
\* (ws_close); when at_once, close() raises without waiting and the handler
\* ends with that exception.
LeaveLoop(c, at_once) ==
    /\ wsLog' = [wsLog EXCEPT ![c] = Append(@, WsEvent("closed", NoFen, "none"))]
    /\ pc' = [pc EXCEPT ![c] = IF at_once THEN "done" ELSE "ws_close"]

\* send_json() returning without the reply having gone out
WsSendSkippingReply(c) ==
    /\ pc[c] = "ws_send"
    /\ Runnable(c)
    /\ resp' = [resp EXCEPT ![c].sent = TRUE]
    /\ pc' = [pc EXCEPT ![c] = "ws_receive"]
    /\ loop' = 0
    /\ UNCHANGED <<req, ret, cur, plan, sfAlive, sfFen, sfDepth, engineLog,
                   ncall, nmsg>>
    /\ UNCHANGED <<abandoned, sfHung, elo, eloCall, wsLog>>

\* the type of the message send_json() is given
ReplyType(r) == IF r.detail = "analysis_result" THEN "analysis_result" ELSE "error"

\* send_json() of the reply inside the loop's try block: the analysis result
\* or the "Missing FEN" message.  It sends the reply and the loop goes on; or
\* it raises: WebSocketDisconnect (the client is gone) breaks the loop, any
\* other exception is caught by "except Exception", which drops the reply and
\* gives send_json a new message, the error message of that exception.
WsSend(c) ==
    /\ pc[c] = "ws_send"
    /\ Runnable(c)
    /\ \/ /\ resp' = [resp EXCEPT ![c].sent = TRUE]
          /\ wsLog' = [wsLog EXCEPT ![c] =
                           Append(@, WsEvent("sent", req[c].fen,
                                             ReplyType(resp[c])))]
          /\ pc' = [pc EXCEPT ![c] = "ws_receive"]
       \/ /\ pc' = [pc EXCEPT ![c] = "ws_error"]
          /\ resp' = [resp EXCEPT ![c] =
                         [NoResp EXCEPT !.detail = "error: send failed"]]
          /\ wsLog' = wsLog
       \/ /\ abandoned[c]
          /\ resp' = resp
          /\ \E at_once \in BOOLEAN : LeaveLoop(c, at_once)
    /\ loop' = 0
    /\ UNCHANGED <<req, ret, cur, plan, sfAlive, sfFen, sfDepth, engineLog,
                   ncall, nmsg>>
    /\ UNCHANGED <<abandoned, sfHung, elo, eloCall>>

\* send_json() of the error message in "except Exception".  It sends the
\* message and the loop goes on; or it raises, outside the loop's try block:
\* the exception leaves the loop and is logged by the outer "except".
WsError(c) ==
    /\ pc[c] = "ws_error"
    /\ Runnable(c)
    /\ \/ /\ resp' = [resp EXCEPT ![c].sent = TRUE]
          /\ wsLog' = [wsLog EXCEPT ![c] =
                           Append(@, WsEvent("sent", req[c].fen, "error"))]
          /\ pc' = [pc EXCEPT ![c] = "ws_receive"]
       \/ /\ resp' = resp
          /\ \E at_once \in BOOLEAN : LeaveLoop(c, at_once)
    /\ loop' = 0
    /\ UNCHANGED <<req, ret, cur, plan, sfAlive, sfFen, sfDepth, engineLog,
                   ncall, nmsg>>
    /\ UNCHANGED <<abandoned, sfHung, elo, eloCall>>

\* the client is gone and no message is left: receive_json() raises
\* WebSocketDisconnect, the loop breaks and "finally" calls close()
WsDisconnect(c) ==
    /\ pc[c] = "ws_receive"
    /\ Runnable(c)
    /\ abandoned[c]
    /\ LeaveLoop(c, FALSE)
    /\ loop' = 0
    /\ UNCHANGED <<req, resp, ret, cur, plan, sfAlive, sfFen, sfDepth,
                   engineLog, ncall, nmsg>>
    /\ UNCHANGED <<abandoned, sfHung, elo, eloCall>>

\* close() returns and the handler ends
WsClose(c) ==
    /\ pc[c] = "ws_close"
    /\ Runnable(c)
    /\ pc' = [pc EXCEPT ![c] = "done"]
    /\ loop' = 0
    /\ UNCHANGED <<req, resp, ret, cur, plan, sfAlive, sfFen, sfDepth,
                   engineLog, ncall, nmsg>>
    /\ UNCHANGED <<abandoned, sfHung, elo, eloCall, wsLog>>

----------------------------------------------------------------------------
(* GET /analyze/best_move/{fen} *)

\* the FEN has a "/" in it: every FEN that names the eight ranks of a board
HasSlash(fen) == fen \in {"start", "mate", "kvk", "ninepawns"}

\* the route "/best_move/{fen}": the path parameter matches one path segment,
\* a text without "/" (the server decodes %2F before the route is looked up)
RouteMatches(fen) == ~HasSlash(fen)

\* the request arrives: a path the route does not match is answered 404 by
\* the router, a depth outside the bounds 422; otherwise the handler starts
LegacyRequest(c) ==
    /\ pc[c] = "idle"
    /\ Runnable(c)
    /\ \E fen \in Fens, depth \in DepthInputs :
          /\ req' = [req EXCEPT ![c] = [NoReq EXCEPT !.kind = "legacy",
                                        !.fen = fen, !.depth = depth]]
          /\ IF ~RouteMatches(fen)
             THEN /\ pc' = [pc EXCEPT ![c] = "done"]
                  /\ resp' = [resp EXCEPT ![c] =
                                 [NoResp EXCEPT !.status = 404,
                                                !.detail = "Not Found",
                                                !.sent = TRUE]]
                  /\ UNCHANGED <<cur, plan, ncall>>
             ELSE IF ~DepthInRange(depth)
             THEN /\ pc' = [pc EXCEPT ![c] = "done"]
                  /\ resp' = [resp EXCEPT ![c] =
                                 [NoResp EXCEPT !.status = 422,
                                                !.detail = "validation",
                                                !.sent = TRUE]]
                  /\ UNCHANGED <<cur, plan, ncall>>
             ELSE /\ BeginCall(c, GetBestMoveBegin(fen, depth))
                  /\ pc' = [pc EXCEPT ![c] = "lg_best"]
                  /\ resp' = resp
    /\ loop' = LoopAfter(c, pc'[c])
    /\ UNCHANGED <<ret, sfAlive, sfFen, sfDepth, engineLog, nmsg>>
    /\ UNCHANGED <<abandoned, sfHung, elo, eloCall, wsLog>>

\* A call of the handler returned or raised.  After get_best_move (lg_best)
\* an exception is answered 400 and a return starts analyze_position
\* (lg_analyze), whose exception is answered 400 and whose return 200.  The
\* handler runs for texts without "/" only; chess.Board raises ValueError on
\* each of them, so get_best_move never returns here.
LegacyReturn(c) ==
    /\ pc[c] \in {"lg_best", "lg_analyze"}
    /\ Runnable(c)
    /\ plan[c] = <<>>
    /\ ret' = [ret EXCEPT ![c] = CallReturn(cur[c])]
    /\ IF cur[c].exc # "none"
       THEN /\ resp' = [resp EXCEPT ![c] =
                           [NoResp EXCEPT !.status = 400,
                                          !.detail = "exception",
                                          !.sent = TRUE]]
            /\ pc' = [pc EXCEPT ![c] = "done"]
            /\ cur' = [cur EXCEPT ![c] = NoCall]
            /\ UNCHANGED <<plan, ncall>>
       ELSE IF pc[c] = "lg_best"
       THEN /\ resp' = [resp EXCEPT ![c] = [NoResp EXCEPT !.best = cur[c].best]]
            /\ pc' = [pc EXCEPT ![c] = "lg_analyze"]
            /\ BeginCall(c, AnalyzePositionBegin(req[c].fen, req[c].depth))
       ELSE /\ resp' = [resp EXCEPT ![c] =
                           [NoResp EXCEPT !.status = 200, !.detail = "success",
                                          !.best = resp[c].best,
                                          !.ntop = cur[c].ntop,
                                          !.depth = cur[c].depth,
                                          !.sent = TRUE]]
            /\ pc' = [pc EXCEPT ![c] = "done"]
            /\ cur' = [cur EXCEPT ![c] = NoCall]
            /\ UNCHANGED <<plan, ncall>>
    /\ loop' = LoopAfter(c, pc'[c])
    /\ UNCHANGED <<req, sfAlive, sfFen, sfDepth, engineLog, nmsg>>
    /\ UNCHANGED <<abandoned, sfHung, elo, eloCall, wsLog>>

----------------------------------------------------------------------------
(* A direct call of EngineService.get_best_move *)

\* depth arguments of the direct calls
BestMoveDepthInputs == {MinDepth, DefaultDepth}

BestMoveCall(c) ==
    /\ pc[c] = "idle"
    /\ Runnable(c)
    /\ \E fen \in Fens, depth \in BestMoveDepthInputs :
          /\ req' = [req EXCEPT ![c] = [NoReq EXCEPT !.kind = "best",
                                        !.fen = fen, !.depth = depth]]
          /\ BeginCall(c, GetBestMoveBegin(fen, depth))
    /\ pc' = [pc EXCEPT ![c] = "bm_call"]
    /\ loop' = LoopAfter(c, "bm_call")
    /\ UNCHANGED <<resp, ret, sfAlive, sfFen, sfDepth, engineLog, nmsg>>
    /\ UNCHANGED <<abandoned, sfHung, elo, eloCall, wsLog>>

BestMoveReturn(c) ==
    /\ pc[c] = "bm_call"
    /\ Runnable(c)
    /\ plan[c] = <<>>
    /\ ret' = [ret EXCEPT ![c] = CallReturn(cur[c])]
    /\ cur' = [cur EXCEPT ![c] = NoCall]
    /\ pc' = [pc EXCEPT ![c] = "done"]
    /\ loop' = LoopAfter(c, "done")
    /\ UNCHANGED <<req, resp, plan, sfAlive, sfFen, sfDepth, engineLog, ncall,
                   nmsg>>
    /\ UNCHANGED <<abandoned, sfHung, elo, eloCall, wsLog>>

----------------------------------------------------------------------------
(* A direct call of EngineService.is_move_correct *)

JudgeCall(c) ==
    /\ pc[c] = "idle"
    /\ Runnable(c)
    /\ \E fen \in Fens, move \in CandidateMoves :
          /\ req' = [req EXCEPT ![c] = [NoReq EXCEPT !.kind = "judge",
                                        !.fen = fen, !.move = move]]
          /\ BeginCall(c, IsMoveCorrectBegin(fen, move))
    /\ pc' = [pc EXCEPT ![c] = "jd_call"]
    /\ loop' = LoopAfter(c, "jd_call")
    /\ UNCHANGED <<resp, ret, sfAlive, sfFen, sfDepth, engineLog, nmsg>>
    /\ UNCHANGED <<abandoned, sfHung, elo, eloCall, wsLog>>

JudgeReturn(c) ==
    /\ pc[c] = "jd_call"
    /\ Runnable(c)
    /\ plan[c] = <<>>
    /\ ret' = [ret EXCEPT ![c] = CallReturn(cur[c])]
    /\ cur' = [cur EXCEPT ![c] = NoCall]
    /\ pc' = [pc EXCEPT ![c] = "done"]
    /\ loop' = LoopAfter(c, "done")
    /\ UNCHANGED <<req, resp, plan, sfAlive, sfFen, sfDepth, engineLog, ncall,
                   nmsg>>
    /\ UNCHANGED <<abandoned, sfHung, elo, eloCall, wsLog>>

----------------------------------------------------------------------------
(* EloService.  Its arithmetic is Python float arithmetic; the model       *)
(* computes with exact fractions <<numerator, denominator>>, denominator    *)
(* positive, in lowest terms.  10 ** x is a fraction when x is an integer,  *)
(* so the model takes ratings whose differences are multiples of 400        *)
(* (OnGrid).  On these inputs a float result is within 2^-50 of the exact   *)
(* value, and it is the exact value wherever that is a multiple of 1/4.     *)

\* Bounds
MaxRatingSteps == 1
MaxResults == 5
MaxPrefix == 2

\* Program constants
DefaultKFactor == 32
DefaultRating == 1200
DefaultInitialGuess == 1500
EloScale == 400
ClosedFormMaxResults == 4
ClosedFormSpread == 400
MaxIterations == 20

\* Float limits of 10 ** ((rating_b - rating_a) / 400): the least whole
\* rating gap at which it overflows, and the gap from which the float
\* 1 / (1 + 10 ** (-x)) is 1.0 and a sum of scores less 1 / (1 + 10 ** x) is
\* the sum of scores
FloatOverflowGap == 123302
SaturationGap == 8000

\* the largest exponent the model computes 10 ** x for
MaxExactExponent == 4

\* calculate_rating_deviation: 200.0 for fewer than 5 results, else 400 times
\* the root mean squared error of the last 10 results
MinDeviationResults == 5
DefaultDeviation == 200
RecentWindow == 10
DeviationScale == 400

Abs(x) == IF x < 0 THEN -x ELSE x

RECURSIVE Gcd(_, _)
Gcd(a, b) == IF b = 0 THEN a ELSE Gcd(b, a % b)

\* the fraction n/d (d > 0) in lowest terms
Rat(n, d) == LET g == Gcd(Abs(n), d) IN <<n \div g, d \div g>>

FromInt(i) == <<i, 1>>
Zero == <<0, 1>>
One == <<1, 1>>
Half == <<1, 2>>

RAdd(x, y) ==
    LET g == Gcd(x[2], y[2]) IN
    Rat(x[1] * (y[2] \div g) + y[1] * (x[2] \div g), (x[2] \div g) * y[2])

RNeg(x) == <<-x[1], x[2]>>

RSub(x, y) == RAdd(x, RNeg(y))

RMul(x, y) ==
    LET g1 == Gcd(Abs(x[1]), y[2])
        g2 == Gcd(Abs(y[1]), x[2])
    IN  Rat((x[1] \div g1) * (y[1] \div g2), (x[2] \div g2) * (y[2] \div g1))

\* 1/x, x not zero
RInv(x) == IF x[1] > 0 THEN <<x[2], x[1]>> ELSE <<-x[2], -x[1]>>

RDiv(x, y) == RMul(x, RInv(y))

RAbs(x) == <<Abs(x[1]), x[2]>>

RLess(x, y) == x[1] * y[2] < y[1] * x[2]

RIsInt(x) == x[2] = 1

RECURSIVE Pow10(_)
Pow10(k) == IF k = 0 THEN 1 ELSE 10 * Pow10(k - 1)

\* 10 ** k for an integer k
TenToThe(k) == IF k >= 0 THEN <<Pow10(k), 1>> ELSE <<1, Pow10(-k)>>

\* Python's round() of a float: to the nearest integer, a tie to the even one
RoundHalfEven(x) ==
    LET f == x[1] \div x[2]
        r == x[1] % x[2]
    IN  IF 2 * r < x[2] THEN f
        ELSE IF 2 * r > x[2] THEN f + 1
        ELSE IF f % 2 = 0 THEN f ELSE f + 1

\* the exponent (b - a) / 400 is an integer
OnGrid(a, b) == (b - a) % EloScale = 0

\* expected_score from the distance of the ratings, whoever is ahead
ExpectedScoreOfDistance(a, b) ==
    RDiv(One, RAdd(One, TenToThe(Abs(b - a) \div EloScale)))

\* expected_score(rating_a, rating_b), for OnGrid(a, b)
ExpectedScore(a, b) ==
    RDiv(One, RAdd(One, TenToThe((b - a) \div EloScale)))

\* calculate_new_ratings giving the opponent the player's change
CalculateNewRatingsSameChange(svc, player_rating, opponent_rating, score) ==
    LET expected == ExpectedScore(player_rating, opponent_rating)
        player_change == RMul(FromInt(svc.k_factor), RSub(score, expected))
    IN  <<RoundHalfEven(RAdd(FromInt(player_rating), player_change)),
          RoundHalfEven(RAdd(FromInt(opponent_rating), player_change))>>

\* calculate_new_ratings(player_rating, opponent_rating, score)
CalculateNewRatings(svc, player_rating, opponent_rating, score) ==
    LET expected == ExpectedScore(player_rating, opponent_rating)
        player_change == RMul(FromInt(svc.k_factor), RSub(score, expected))
        opponent_change ==
            RMul(FromInt(svc.k_factor),
                 RSub(RSub(One, score), RSub(One, expected)))
    IN  <<RoundHalfEven(RAdd(FromInt(player_rating), player_change)),
          RoundHalfEven(RAdd(FromInt(opponent_rating), opponent_change))>>

RECURSIVE SumRatings(_)
SumRatings(results) ==
    IF results = <<>> THEN 0
    ELSE Head(results).opponent_rating + SumRatings(Tail(results))

RECURSIVE SumScores(_)
SumScores(results) ==
    IF results = <<>> THEN Zero
    ELSE RAdd(Head(results).score, SumScores(Tail(results)))

RLeq(x, y) == ~RLess(y, x)

\* the whole numbers next to a fraction
RFloor(x) == x[1] \div x[2]

RCeil(x) == -((-x[1]) \div x[2])

\* What the model knows of expected_score(rating, opponent) from the gap
\* opponent - rating, a fraction: it raises OverflowError, it is 0 or 1 to
\* within 10^-15, it is a fraction the model computes, or the model does not
\* compute it ("edge": whether it overflows; "unknown": its value).  Of the
\* computed fractions only 1/2, at gap 0, is a float
ExpectedKind(gap) ==
    IF RFloor(gap) >= FloatOverflowGap THEN "overflow"
    ELSE IF RFloor(gap) = FloatOverflowGap - 1 /\ ~RIsInt(gap) THEN "edge"
    ELSE IF RFloor(gap) >= SaturationGap THEN "zero"
    ELSE IF RCeil(gap) <= -SaturationGap THEN "one"
    ELSE IF gap = Zero THEN "half"
    ELSE IF /\ RIsInt(gap)
            /\ gap[1] % EloScale = 0
            /\ Abs(gap[1]) \div EloScale <= MaxExactExponent THEN "exact"
    ELSE "unknown"

TrialGap(rating, opponent_rating) == RSub(FromInt(opponent_rating), rating)

\* expected_score(rating, opponent_rating) at a trial rating, where known
TrialExpected(rating, opponent_rating) ==
    LET kind == ExpectedKind(TrialGap(rating, opponent_rating)) IN
    IF kind = "zero" THEN Zero
    ELSE IF kind = "one" THEN One
    ELSE ExpectedScore(rating[1], opponent_rating)

\* the sum of expected_score(rating, opponent_rating) over the results
RECURSIVE SumExpected(_, _)
SumExpected(rating, results) ==
    IF results = <<>> THEN Zero
    ELSE RAdd(TrialExpected(rating, Head(results).opponent_rating),
              SumExpected(rating, Tail(results)))

\* the kinds of the expected scores of one iteration
TrialKinds(rating, results) ==
    {ExpectedKind(TrialGap(rating, results[i].opponent_rating)) :
        i \in DOMAIN results}

\* the branch for few results: average opponent rating plus 400 * (average
\* score - 0.5), rounded
ClosedForm(results) ==
    LET n == Len(results) IN
    RoundHalfEven(RAdd(Rat(SumRatings(results), n),
                       RMul(FromInt(ClosedFormSpread),
                            RSub(RDiv(SumScores(results), FromInt(n)), Half))))

\* what calculate_performance_rating hands back: the branch taken, the
\* returned rating (when exc is "none"), the iterations entered and their
\* steps k_factor * (sum_actual - sum_expected); exact is false when the
\* model does not compute the value
Returned(branch, value, steps) ==
    [branch |-> branch, value |-> value, iterations |-> Len(steps),
     exact |-> TRUE, exc |-> "none", steps |-> steps]

Raised(exc, steps) ==
    [branch |-> "iterative", value |-> 0, iterations |-> Len(steps) + 1,
     exact |-> TRUE, exc |-> exc, steps |-> steps]

NotComputed(steps) ==
    [branch |-> "iterative", value |-> 0, iterations |-> Len(steps) + 1,
     exact |-> FALSE, exc |-> "none", steps |-> steps]

\* The float trial rating is the model's fraction as long as every step
\* was made of floats the model holds (0, 1/2, 1).  After a step made of
\* other expected scores the float is the fraction to within rounding, and
\* the loop multiplies such an error wherever the expected scores are not
\* flat: there the model does not compute the iteration.
StepRounds(kinds) == "exact" \in kinds

Sensitive(kinds) == kinds \cap {"half", "exact"} # {}

\* the loop without its convergence test: it always makes 20 iterations
RECURSIVE IterateWithoutConvergenceTest(_, _, _, _, _)
IterateWithoutConvergenceTest(svc, results, rating, steps, rounded) ==
    LET kinds == TrialKinds(rating, results) IN
    IF Len(steps) = MaxIterations
    THEN Returned("iterative", RoundHalfEven(rating), steps)
    ELSE IF "edge" \in kinds THEN NotComputed(steps)
    ELSE IF "overflow" \in kinds THEN Raised("OverflowError", steps)
    ELSE IF "unknown" \in kinds \/ (rounded /\ Sensitive(kinds))
    THEN NotComputed(steps)
    ELSE LET step == RMul(FromInt(svc.k_factor),
                          RSub(SumScores(results), SumExpected(rating, results)))
         IN  IterateWithoutConvergenceTest(svc, results, RAdd(rating, step),
                                           Append(steps, step),
                                           rounded \/ StepRounds(kinds))

\* the loop "for _ in range(20)", entered with the trial rating after the
\* steps made so far
RECURSIVE Iterate(_, _, _, _, _)
Iterate(svc, results, rating, steps, rounded) ==
    LET kinds == TrialKinds(rating, results) IN
    IF Len(steps) = MaxIterations
    THEN Returned("iterative", RoundHalfEven(rating), steps)
    ELSE IF "edge" \in kinds THEN NotComputed(steps)
    ELSE IF "overflow" \in kinds THEN Raised("OverflowError", steps)
    ELSE IF "unknown" \in kinds \/ (rounded /\ Sensitive(kinds))
    THEN NotComputed(steps)
    ELSE LET step == RMul(FromInt(svc.k_factor),
                          RSub(SumScores(results), SumExpected(rating, results)))
         IN  IF RLess(RAbs(step), One)
             THEN Returned("iterative", RoundHalfEven(rating),
                           Append(steps, step))
             ELSE Iterate(svc, results, RAdd(rating, step),
                          Append(steps, step), rounded \/ StepRounds(kinds))

\* calculate_performance_rating taking the closed form up to 3 results only
CalculatePerformanceRatingEarlyIteration(svc, results, initial_guess) ==
    IF results = <<>>
    THEN Returned("empty", svc.default_rating, <<>>)
    ELSE IF Len(results) <= ClosedFormMaxResults - 1
    THEN Returned("closed", ClosedForm(results), <<>>)
    ELSE Iterate(svc, results, FromInt(initial_guess), <<>>, FALSE)

\* calculate_performance_rating without the test for an empty list
CalculatePerformanceRatingNoEmptyTest(svc, results, initial_guess) ==
    IF Len(results) <= ClosedFormMaxResults /\ results # <<>>
    THEN Returned("closed", ClosedForm(results), <<>>)
    ELSE Iterate(svc, results, FromInt(initial_guess), <<>>, FALSE)

\* calculate_performance_rating(results, initial_guess)
CalculatePerformanceRating(svc, results, initial_guess) ==
    IF results = <<>>
    THEN Returned("empty", svc.default_rating, <<>>)
    ELSE IF Len(results) <= ClosedFormMaxResults
    THEN Returned("closed", ClosedForm(results), <<>>)
    ELSE Iterate(svc, results, FromInt(initial_guess), <<>>, FALSE)

\* results[-n:]
LastResults(results, n) ==
    IF Len(results) <= n THEN results
    ELSE SubSeq(results, Len(results) - n + 1, Len(results))

\* the sum of (score - expected_score(current_rating, opponent_rating)) ** 2
RECURSIVE SumSquaredErrors(_, _)
SumSquaredErrors(current_rating, results) ==
    IF results = <<>> THEN Zero
    ELSE LET error == RSub(Head(results).score,
                           TrialExpected(FromInt(current_rating),
                                         Head(results).opponent_rating))
         IN  RAdd(RMul(error, error),
                  SumSquaredErrors(current_rating, Tail(results)))

\* what calculate_rating_deviation hands back.  The returned float is
\* 400 * sqrt(mean), no fraction in general: the model holds its square
DeviationReturned(squared) ==
    [squared |-> squared, exact |-> TRUE, exc |-> "none"]

DeviationRaised(exc) == [squared |-> Zero, exact |-> TRUE, exc |-> exc]

DeviationNotComputed == [squared |-> Zero, exact |-> FALSE, exc |-> "none"]

\* the part of calculate_rating_deviation after the test of the length, on
\* the results it looks at
DeviationOf(current_rating, recent) ==
    LET kinds == TrialKinds(FromInt(current_rating), recent) IN
    IF "edge" \in kinds THEN DeviationNotComputed
    ELSE IF "overflow" \in kinds THEN DeviationRaised("OverflowError")
    ELSE IF "unknown" \in kinds THEN DeviationNotComputed
    ELSE IF recent = <<>>
    THEN DeviationReturned(FromInt(DefaultDeviation * DefaultDeviation))
    ELSE DeviationReturned(
             RMul(FromInt(DeviationScale * DeviationScale),
                  RDiv(SumSquaredErrors(current_rating, recent),
                       FromInt(Len(recent)))))

\* calculate_rating_deviation computing from 4 results already
CalculateRatingDeviationFromFour(svc, results, current_rating) ==
    IF Len(results) < MinDeviationResults - 1
    THEN DeviationReturned(FromInt(DefaultDeviation * DefaultDeviation))
    ELSE DeviationOf(current_rating, LastResults(results, RecentWindow))

\* calculate_rating_deviation looking at all the results
CalculateRatingDeviationAllResults(svc, results, current_rating) ==
    IF Len(results) < MinDeviationResults
    THEN DeviationReturned(FromInt(DefaultDeviation * DefaultDeviation))
    ELSE DeviationOf(current_rating, results)

\* calculate_rating_deviation(results, current_rating)
CalculateRatingDeviation(svc, results, current_rating) ==
    IF Len(results) < MinDeviationResults
    THEN DeviationReturned(FromInt(DefaultDeviation * DefaultDeviation))
    ELSE DeviationOf(current_rating, LastResults(results, RecentWindow))

\* Inputs
RatingInputs ==
    {DefaultInitialGuess + EloScale * i + j :
        i \in (-MaxRatingSteps)..MaxRatingSteps, j \in {0, 1}}

ScoreInputs == {Zero, Half, One}

KFactorInputs == {DefaultKFactor, 1, 60000}

EloConfigs ==
    [k_factor : KFactorInputs, default_rating : {DefaultRating, 1000}]

GuessInputs == {DefaultInitialGuess, DefaultInitialGuess - EloScale}

CurrentRatingInputs ==
    {DefaultInitialGuess, DefaultInitialGuess + 1,
     DefaultInitialGuess + EloScale}

ResultInputs ==
    {[opponent_rating |-> DefaultInitialGuess, score |-> One],
     [opponent_rating |-> DefaultInitialGuess, score |-> Half],
     [opponent_rating |-> DefaultInitialGuess, score |-> Zero],
     [opponent_rating |-> DefaultInitialGuess + 1, score |-> Half],
     [opponent_rating |-> DefaultInitialGuess + EloScale, score |-> One]}

ResultLists == UNION {[1..n -> ResultInputs] : n \in 0..MaxResults}

Repeat(result, n) == [i \in 1..n |-> result]

\* Malformed inputs: a negative rating, scores outside [0, 1]
NegativeRating == DefaultInitialGuess - 4 * EloScale

FarNegativeRating == DefaultInitialGuess - SaturationGap

ScoresOutOfRange == {FromInt(2), FromInt(-1)}

MalformedNewRatingInputs ==
    {<<NegativeRating, DefaultInitialGuess, Half>>,
     <<DefaultInitialGuess, NegativeRating, One>>}
    \cup {<<DefaultInitialGuess, DefaultInitialGuess, score>> :
              score \in ScoresOutOfRange}

MalformedResults ==
    {[opponent_rating |-> FarNegativeRating, score |-> Half]}
    \cup {[opponent_rating |-> DefaultInitialGuess, score |-> score] :
              score \in ScoresOutOfRange}

MalformedLists ==
    {Repeat(result, n) :
        result \in MalformedResults,
        n \in {ClosedFormMaxResults, MinDeviationResults}}

NewRatingInputs ==
    {t \in RatingInputs \X RatingInputs \X ScoreInputs : OnGrid(t[1], t[2])}
    \cup MalformedNewRatingInputs

\* longer histories: ten equal results after up to MaxPrefix older ones
LongLists ==
    {Repeat(older, n) \o Repeat(recent, RecentWindow) :
        older \in ResultInputs, recent \in ResultInputs, n \in 0..MaxPrefix}

ResultsInputs == ResultLists \cup LongLists \cup MalformedLists

DefaultElo == [k_factor |-> DefaultKFactor, default_rating |-> DefaultRating]

\* the last call: its arguments and what it returned
NoEloCall == [op |-> "none", args |-> <<>>, out |-> <<>>]

\* the method op called with args
Apply(svc, op, args) ==
    CASE op = "expected_score" -> ExpectedScore(args[1], args[2])
      [] op = "calculate_new_ratings" ->
             CalculateNewRatings(svc, args[1], args[2], args[3])
      [] op = "calculate_performance_rating" ->
             CalculatePerformanceRating(svc, args[1], args[2])
      [] op = "calculate_rating_deviation" ->
             CalculateRatingDeviation(svc, args[1], args[2])


----------------------------------------------------------------------------

Init ==
    /\ pc = [c \in Callers |-> "idle"]
    /\ req = [c \in Callers |-> NoReq]
    /\ resp = [c \in Callers |-> NoResp]
    /\ ret = [c \in Callers |-> NoRet]
    /\ cur = [c \in Callers |-> NoCall]
    /\ plan = [c \in Callers |-> <<>>]
    /\ loop = 0
    /\ sfAlive = TRUE
    /\ sfFen = "start"
    /\ sfDepth = DefaultDepth
    /\ engineLog = <<>>
    /\ ncall = [c \in Callers |-> 0]
    /\ nmsg = [c \in Callers |-> 0]
    /\ abandoned = [c \in Callers |-> FALSE]
    /\ sfHung = FALSE
    /\ elo = DefaultElo
    /\ eloCall = NoEloCall
    /\ wsLog = [c \in Callers |-> <<>>]

Next ==
    \/ EngineCrash
    \/ EngineHang
    \/ \E c \in Callers :
          \/ PositionRequest(c)
          \/ GameRequest(c)
          \/ GameReturn(c)
          \/ Abandon(c)
          \/ WsConnect(c)
          \/ WsAccept(c)
          \/ WsReceive(c)
          \/ WsCallReturn(c)
          \/ WsSend(c)
          \/ WsError(c)
          \/ WsDisconnect(c)
          \/ WsClose(c)
          \/ LegacyRequest(c)
          \/ LegacyReturn(c)
          \/ BestMoveCall(c)
          \/ BestMoveReturn(c)
          \/ JudgeCall(c)
          \/ JudgeReturn(c)
          \/ EngineCmd(c)

Spec == Init /\ [][Next]_vars

\* Synchronous code keeps running: a call that has a command to issue issues
\* it, unless the command blocks.
FairSpec == Spec /\ \A c \in Callers : WF_vars(EngineCmd(c))

\* a step of a handler that has started, or of the call it is in
Continue(c) ==
    \/ GameReturn(c)
    \/ WsAccept(c)
    \/ WsCallReturn(c)
    \/ WsSend(c)
    \/ WsError(c)
    \/ WsDisconnect(c)
    \/ WsClose(c)
    \/ LegacyReturn(c)
    \/ BestMoveReturn(c)
    \/ JudgeReturn(c)
    \/ EngineCmd(c)

\* The event loop keeps running the coroutines that can run, and the server
\* hands a handler that waits in receive_json() the disconnect of its client.
LiveSpec == Spec /\ \A c \in Callers : WF_vars(Continue(c))

----------------------------------------------------------------------------
(* Calls of an EloService object.  The object is constructed with a        *)
(* k_factor and a default_rating.  A caller calls one of its methods and    *)
(* takes what the call returned; then the next call can be made.  The       *)
(* methods read k_factor and default_rating and assign neither.             *)

engineVars == <<pc, req, resp, ret, cur, plan, loop, sfAlive, sfFen, sfDepth,
                engineLog, ncall, nmsg, abandoned, sfHung, wsLog>>

\* the call op(args) of the service
EloCalled(op, args) ==
    /\ eloCall' = [op |-> op, args |-> args, out |-> Apply(elo, op, args)]
    /\ UNCHANGED <<engineVars, elo>>

ExpectedScoreCall ==
    /\ eloCall = NoEloCall
    /\ \E a \in RatingInputs, b \in RatingInputs :
          /\ OnGrid(a, b)
          /\ EloCalled("expected_score", <<a, b>>)

NewRatingsCall ==
    /\ eloCall = NoEloCall
    /\ \E args \in NewRatingInputs :
          EloCalled("calculate_new_ratings", args)

PerformanceCall ==
    /\ eloCall = NoEloCall
    /\ \E results \in ResultsInputs, guess \in GuessInputs :
          /\ CalculatePerformanceRating(elo, results, guess).exact
          /\ EloCalled("calculate_performance_rating", <<results, guess>>)

DeviationCall ==
    /\ eloCall = NoEloCall
    /\ \E results \in ResultsInputs, current \in CurrentRatingInputs :
          /\ CalculateRatingDeviation(elo, results, current).exact
          /\ EloCalled("calculate_rating_deviation", <<results, current>>)

\* the caller has taken the returned value
EloReturn ==
    /\ eloCall # NoEloCall
    /\ eloCall' = NoEloCall
    /\ UNCHANGED <<engineVars, elo>>

EloInit ==
    /\ pc = [c \in Callers |-> "idle"]
    /\ req = [c \in Callers |-> NoReq]
    /\ resp = [c \in Callers |-> NoResp]
    /\ ret = [c \in Callers |-> NoRet]
    /\ cur = [c \in Callers |-> NoCall]
    /\ plan = [c \in Callers |-> <<>>]
    /\ loop = 0
    /\ sfAlive = TRUE
    /\ sfFen = "start"
    /\ sfDepth = DefaultDepth
    /\ engineLog = <<>>
    /\ ncall = [c \in Callers |-> 0]
    /\ nmsg = [c \in Callers |-> 0]
    /\ abandoned = [c \in Callers |-> FALSE]
    /\ sfHung = FALSE
    /\ elo \in EloConfigs
    /\ eloCall = NoEloCall
    /\ wsLog = [c \in Callers |-> <<>>]

EloNext ==
    \/ ExpectedScoreCall
    \/ NewRatingsCall
    \/ PerformanceCall
    \/ DeviationCall
    \/ EloReturn

EloSpec == EloInit /\ [][EloNext]_vars

----------------------------------------------------------------------------
(* Helpers of the properties *)

GameDone(c) == pc[c] = "done" /\ req[c].kind = "game"

GameAccepted(c) ==
    /\ GameDone(c)
    /\ GameRequestValid(req[c].depth, req[c].multipv, req[c].interval)
    /\ req[c].pgn = "wellformed"

PositionDone(c) == pc[c] = "done" /\ req[c].kind = "position"

IsSearch(op) == op \in {"eval", "best", "top"}

SameCall(i, j) ==
    /\ engineLog[i].caller = engineLog[j].caller
    /\ engineLog[i].call = engineLog[j].call

\* the two characters are the same letter or digit, whatever their case
SameCharIgnoringCase(x, y) ==
    \/ x = y
    \/ <<x, y>> \in {<<"e", "E">>, <<"E", "e">>, <<"d", "D">>, <<"D", "d">>}

EqualIgnoringCase(a, b) ==
    /\ Len(a) = Len(b)
    /\ \A i \in 1..Len(a) : SameCharIgnoringCase(a[i], b[i])

\* the tolerance 1e-9
Tolerance == <<1, Pow10(9)>>

\* x, not negative, is at most the tolerance
WithinTolerance(x) == x[1] <= (Tolerance[1] * x[2]) \div Tolerance[2]

\* twice the sum of the scores of the results, a whole number of half points
HalfPoints(results) == RMul(FromInt(2), SumScores(results))[1]

LegacyDone(c) ==
    /\ pc[c] = "done"
    /\ req[c].kind = "legacy"
    /\ DepthInRange(req[c].depth)

\* how many times the handler of c closed its socket
ClosedCount(c) ==
    Cardinality({i \in DOMAIN wsLog[c] : wsLog[c][i].ev = "closed"})

PerformanceCalled == eloCall.op = "calculate_performance_rating"

DeviationCalled == eloCall.op = "calculate_rating_deviation"

NewRatingsCalled == eloCall.op = "calculate_new_ratings"

ScoreOutOfRange(score) == RLess(score, Zero) \/ RLess(One, score)

MalformedResult(result) ==
    result.opponent_rating < 0 \/ ScoreOutOfRange(result.score)

\* the call was given a negative rating or a score outside [0, 1]
MalformedCall ==
    \/ /\ NewRatingsCalled
       /\ \/ eloCall.args[1] < 0
          \/ eloCall.args[2] < 0
          \/ ScoreOutOfRange(eloCall.args[3])
    \/ /\ PerformanceCalled \/ DeviationCalled
       /\ \/ eloCall.args[2] < 0
          \/ \E i \in DOMAIN eloCall.args[1] :
                 MalformedResult(eloCall.args[1][i])

\* the exception the call ended with, "none" when it returned
RaisedBy(call) ==
    IF call.op \in {"calculate_performance_rating",
                    "calculate_rating_deviation"}
    THEN call.out.exc ELSE "none"

\* the returned deviation is the number d, not negative
DeviationIs(out, d) ==
    /\ out.exc = "none"
    /\ out.squared = FromInt(d * d)

\* the sum of the steps that were applied to the trial rating
RECURSIVE SumApplied(_)
SumApplied(steps) ==
    IF steps = <<>> THEN Zero
    ELSE RAdd(IF RLess(RAbs(Head(steps)), One) THEN Zero ELSE Head(steps),
              SumApplied(Tail(steps)))

\* every result is a draw against an opponent of the given rating
AllDrawsAgainst(results, rating) ==
    \A i \in DOMAIN results :
        /\ results[i].opponent_rating = rating
        /\ results[i].score = Half

----------------------------------------------------------------------------
(* Properties *)

\* C1: analyze_game on a game of P plies with interval N returns a report of
\* exactly floor(P/N) entries, for the plies N, 2N, 3N, ... in increasing order.
C1_ReportHasEveryNthPly ==
    \A c \in Callers :
        GameAccepted(c) =>
            /\ resp[c].status = 200
            /\ Len(resp[c].report) = req[c].plies \div req[c].interval
            /\ \A i \in 1..Len(resp[c].report) :
                   resp[c].report[i].ply = i * req[c].interval

\* C2: in analyze_game every ply, also one whose index is no multiple of N, is
\* applied to the board, and only the multiples of N are sent to the engine, so
\* at most floor(P/N) engine calls are made for a P-ply game.
C2_SkippedPliesWalkedNotAnalysed ==
    \A c \in Callers :
        GameAccepted(c) =>
            /\ resp[c].walked = req[c].plies
            /\ ncall[c] <= req[c].plies \div req[c].interval

\* C3: when the analysis of a sampled ply does not succeed, analyze_game returns
\* no report and its error names the ply at which it failed.
C3_FailureNamesThePly ==
    \A c \in Callers :
        (GameAccepted(c) /\ req[c].plies >= req[c].interval
                         /\ resp[c].status # 200) =>
            /\ resp[c].report = <<>>
            /\ resp[c].failedPly >= 1
            /\ resp[c].failedPly % req[c].interval = 0

\* C4: the engine never receives a command of an analyze_position call for a
\* FEN that fails the board-legality check.
C4_NoEngineCommandForIllegalFen ==
    \A i \in DOMAIN engineLog :
        engineLog[i].svc = "analyze_position" => BoardLegal(engineLog[i].fen)

\* C5: a position analysis of the starting position with multipv in 1..5 returns
\* a result whose top_moves has at most multipv entries.
C5_TopMovesWithinMultiPv ==
    \A c \in Callers :
        (PositionDone(c) /\ req[c].fen = "start" /\ MultiPvInRange(req[c].multipv)
                         /\ DepthInRange(req[c].depth)) =>
            /\ resp[c].status = 200
            /\ resp[c].ntop <= req[c].multipv

\* C6: a position or game analysis request with depth outside [5,30] or multipv
\* outside [1,5] is rejected with a parameter error, and no engine command runs
\* at an out-of-range depth.
C6_OutOfRangeRejected ==
    /\ \A c \in Callers :
           ((PositionDone(c) \/ GameDone(c))
               /\ (~DepthInRange(req[c].depth) \/ ~MultiPvInRange(req[c].multipv)))
           => resp[c].status = 422
    /\ \A i \in DOMAIN engineLog : DepthInRange(engineLog[i].depth)

\* C7: get_best_move on a terminal position returns None without raising, and
\* no engine command is issued by get_best_move for a terminal position.
C7_TerminalBestMoveIsNone ==
    /\ \A c \in Callers :
           (ret[c].svc = "get_best_move" /\ IsGameOver(ret[c].fen)) =>
               (ret[c].exc = "none" /\ ret[c].best = NoMove)
    /\ \A i \in DOMAIN engineLog :
           engineLog[i].svc = "get_best_move" => ~IsGameOver(engineLog[i].fen)

C7_Witness ==
    \E c \in Callers :
        /\ ret[c].svc = "get_best_move"
        /\ ret[c].fen \in {"mate", "kvk"}
        /\ ret[c].exc = "none"
        /\ ret[c].best = NoMove
        /\ sfAlive

\* C8: is_move_correct returns true exactly when the engine gave a best move
\* and the candidate equals it ignoring letter case; the move it is compared
\* with is the engine's best move for the position of that call.
C8_CorrectIffBestMove ==
    \A c \in Callers :
        ret[c].svc = "is_move_correct" =>
            /\ ret[c].correct <=>
                   (ret[c].best # NoMove
                       /\ EqualIgnoringCase(ret[c].move, ret[c].best))
            /\ ret[c].best # NoMove => ret[c].best \in BestAnswers(ret[c].fen)

C8_Witness ==
    \E c \in Callers :
        /\ ret[c].svc = "is_move_correct"
        /\ ret[c].move = E2E4
        /\ ret[c].best = e2e4
        /\ ret[c].correct

\* C9: every search the engine runs for a call runs at that call's own depth
\* argument, at the default depth 18 for is_move_correct.
C9_SearchDepthIsCallDepth ==
    \A i \in DOMAIN engineLog :
        IsSearch(engineLog[i].op) =>
            engineLog[i].depth =
                IF engineLog[i].svc = "is_move_correct" THEN DefaultDepth
                ELSE engineLog[i].arg

\* C10: the engine commands of one EngineService call are contiguous: no
\* command of another call comes between two of them.
C10_NoInterleavedCommands ==
    \A i, k \in DOMAIN engineLog :
        (i < k /\ SameCall(i, k)) =>
            \A j \in i..k : SameCall(i, j)

\* commands of two callers are in the log while the first caller's websocket
\* handler is still waiting to send its reply
C10_Witness ==
    \E i, j \in DOMAIN engineLog :
        /\ i < j
        /\ engineLog[i].caller # engineLog[j].caller
        /\ engineLog[i].op = "top"
        /\ pc[engineLog[i].caller] = "ws_send"
        /\ ~resp[engineLog[i].caller].sent

\* C11: an analyze_game request whose client went away while it was in flight
\* is seen to be abandoned by the handler, which stops there: it starts no
\* engine call and does not run on to the answer of an unabandoned request.
C11_AbandonedGameStops ==
    \A c \in Callers :
        (GameDone(c) /\ abandoned[c]) =>
            /\ resp[c].detail = "cancelled"
            /\ ncall[c] = 0

\* C12: every engine call that has started comes to its end, with a result or
\* with an error: no caller stays inside an engine call for ever.
C12_EngineCallEnds ==
    \A c \in Callers : (plan[c] # <<>>) ~> (plan[c] = <<>>)

\* C13: when a Stockfish command fails during analyze_position, the call
\* raises the engine's error, and the reply its caller gives is an error that
\* carries no best move and no top moves.
C13_EngineFailurePropagates ==
    [][\A c \in Callers :
          (cur[c].svc = "analyze_position" /\ cur[c].exc = "StockfishException"
              /\ cur'[c] = NoCall) =>
             /\ ret'[c].svc = "analyze_position"
             /\ ret'[c].exc = "StockfishException"
             /\ resp'[c].detail \in {"error: exception", "exception"}
             /\ resp'[c].status # 200
             /\ resp'[c].best = NoMove
             /\ resp'[c].ntop = 0]_vars

\* the engine died after analyze_position had obtained the best move: the call
\* raised, and the websocket reply is an error without that move
C13_Witness ==
    \E c \in Callers :
        /\ ret[c].svc = "analyze_position"
        /\ ret[c].exc = "StockfishException"
        /\ ret[c].best # NoMove
        /\ resp[c].detail = "error: exception"
        /\ resp[c].best = NoMove
        /\ ~sfAlive

\* C14: a position-analysis request whose FEN fails the board-legality check
\* is answered with HTTP 400 'Invalid FEN', not with the HTTP 500 of a failed
\* analysis.
C14_InvalidFenIs400 ==
    \A c \in Callers :
        (PositionDone(c) /\ PositionRequestValid(req[c].depth, req[c].multipv)
                         /\ ~BoardLegal(req[c].fen)) =>
            /\ resp[c].status = 400
            /\ resp[c].detail = "Invalid FEN"

\* C15: a call of is_move_correct, analyze_position or get_best_move that ends
\* without a best move ends with an error, except get_best_move on a position
\* where the game is over.
C15_NoFailureSwallowed ==
    \A c \in Callers :
        (ret[c].svc \in {"is_move_correct", "analyze_position", "get_best_move"}
            /\ ret[c].best = NoMove
            /\ ~(ret[c].svc = "get_best_move" /\ ~BoardRaises(ret[c].fen)
                                             /\ IsGameOver(ret[c].fen))) =>
            ret[c].exc # "none"

\* C16: analyze_game on a game text that is empty, unparsable or holds an
\* illegal move fails with the invalid-PGN error, without an engine call and
\* without a report; on a well-formed game text it succeeds and walks every ply.
C16_InvalidPgnRejectedValidWalked ==
    \A c \in Callers :
        (GameDone(c)
            /\ GameRequestValid(req[c].depth, req[c].multipv, req[c].interval)) =>
            IF req[c].pgn = "wellformed"
            THEN /\ resp[c].status = 200
                 /\ resp[c].walked = req[c].plies
            ELSE /\ resp[c].status = 400
                 /\ resp[c].detail = "Error analyzing game: Invalid PGN"
                 /\ resp[c].report = <<>>
                 /\ ncall[c] = 0

\* C17: expected_score(a, b) + expected_score(b, a) is 1 within 1e-9, and
\* expected_score(r, r) is exactly 0.5.
C17_ExpectedScoresSumToOne ==
    eloCall.op = "expected_score" =>
        LET a == eloCall.args[1]
            b == eloCall.args[2]
            sum == RAdd(eloCall.out, ExpectedScore(b, a))
        IN  /\ WithinTolerance(RAbs(RSub(sum, One)))
            /\ (a = b => eloCall.out = Half)

C17_Witness ==
    /\ eloCall.op = "expected_score"
    /\ eloCall.args = <<DefaultInitialGuess, DefaultInitialGuess + EloScale>>
    /\ eloCall.out = <<1, 11>>

\* C18: calculate_new_ratings moves the two ratings in opposite directions, or
\* leaves a rating where it was, never both up or both down, and the two
\* changes add up to at most 1 in absolute value.
C18_NewRatingsZeroSum ==
    eloCall.op = "calculate_new_ratings" =>
        LET dPlayer == eloCall.out[1] - eloCall.args[1]
            dOpponent == eloCall.out[2] - eloCall.args[2]
        IN  /\ ~(dPlayer > 0 /\ dOpponent > 0)
            /\ ~(dPlayer < 0 /\ dOpponent < 0)
            /\ Abs(dPlayer + dOpponent) <= 1

\* a win against an opponent rated 400 higher: K * (1 - 1/11) is no whole
\* number, both new ratings are rounded
C18_Witness ==
    /\ eloCall.op = "calculate_new_ratings"
    /\ elo.k_factor = DefaultKFactor
    /\ eloCall.args = <<DefaultInitialGuess, DefaultInitialGuess + EloScale, One>>
    /\ eloCall.out[1] > eloCall.args[1]
    /\ eloCall.out[2] < eloCall.args[2]

\* C19: calculate_performance_rating of an empty list returns the object's
\* default_rating, whatever the initial guess, without iterating.
C19_EmptyResultsGiveDefault ==
    (PerformanceCalled /\ eloCall.args[1] = <<>>) =>
        /\ eloCall.out.value = elo.default_rating
        /\ eloCall.out.iterations = 0

C19_Witness ==
    /\ PerformanceCalled
    /\ eloCall.args[1] = <<>>
    /\ eloCall.args[2] # DefaultInitialGuess
    /\ elo.default_rating # DefaultRating
    /\ eloCall.out.value = elo.default_rating

\* C20: for 1 to 4 results calculate_performance_rating returns, without
\* iterating, the integer nearest to (average opponent rating + 400 * (average
\* score - 0.5)), the even one of two equally near; it iterates only from 5
\* results on; the one result {opponent 1500, score 1.0} gives 1700.
C20_ClosedFormUpToFour ==
    PerformanceCalled =>
        LET results == eloCall.args[1]
            n == Len(results)
            v == eloCall.out.value
            \* 2n * (average rating + 400 * (average score - 0.5))
            num == 2 * SumRatings(results)
                     + ClosedFormSpread * HalfPoints(results)
                     - ClosedFormSpread * n
        IN  /\ (n >= 1 /\ n <= ClosedFormMaxResults) =>
                   /\ eloCall.out.branch = "closed"
                   /\ eloCall.out.iterations = 0
                   /\ Abs(2 * n * v - num) <= n
                   /\ (Abs(2 * n * v - num) = n => v % 2 = 0)
            /\ eloCall.out.branch = "iterative" => n > ClosedFormMaxResults
            /\ results = <<[opponent_rating |-> DefaultInitialGuess,
                            score |-> One]>> =>
                   v = DefaultInitialGuess + ClosedFormSpread \div 2

\* four results, a k_factor and an initial guess that are not the defaults
C20_Witness ==
    /\ PerformanceCalled
    /\ Len(eloCall.args[1]) = ClosedFormMaxResults
    /\ HalfPoints(eloCall.args[1]) = 5
    /\ \A i \in DOMAIN eloCall.args[1] :
           eloCall.args[1][i].opponent_rating = DefaultInitialGuess
    /\ eloCall.args[2] # DefaultInitialGuess
    /\ elo.k_factor # DefaultKFactor
    /\ eloCall.out.value = DefaultInitialGuess + ClosedFormSpread \div 8

\* C21: for more than 4 results calculate_performance_rating always returns:
\* it makes at most 20 iterations of rating + k_factor * (sum_actual -
\* sum_expected), stops at the first step smaller than 1, and returns the
\* rounded trial rating it holds then, whatever the input.
C21_IterationAlwaysReturns ==
    (PerformanceCalled /\ Len(eloCall.args[1]) > ClosedFormMaxResults) =>
        LET out == eloCall.out
            steps == out.steps
        IN  /\ out.exc = "none"
            /\ out.branch = "iterative"
            /\ out.iterations = Len(steps)
            /\ Len(steps) <= MaxIterations
            /\ \A i \in 1..Len(steps) :
                   RLess(RAbs(steps[i]), One) => i = Len(steps)
            /\ Len(steps) < MaxIterations =>
                   /\ steps # <<>>
                   /\ RLess(RAbs(steps[Len(steps)]), One)
            /\ out.value =
                   RoundHalfEven(RAdd(FromInt(eloCall.args[2]),
                                      SumApplied(steps)))

\* C22: calculate_performance_rating on 10 draws against opponents rated 1500
\* returns 1500 with the default initial guess; more generally, draws against
\* opponents rated at the trial rating are a fixed point: the first iteration
\* moves the rating by nothing, the loop stops there and the guess is returned.
C22_DrawsAtTrialRatingAreFixedPoint ==
    (/\ PerformanceCalled
     /\ Len(eloCall.args[1]) > ClosedFormMaxResults
     /\ AllDrawsAgainst(eloCall.args[1], eloCall.args[2])) =>
        /\ eloCall.out.exc = "none"
        /\ eloCall.out.value = eloCall.args[2]
        /\ eloCall.out.steps = <<Zero>>
        /\ (Len(eloCall.args[1]) = RecentWindow
             /\ eloCall.args[2] = DefaultInitialGuess) =>
                eloCall.out.value = 1500

\* ten draws against 1500 with the default initial guess and the default
\* k_factor, answered 1500
C22_Witness ==
    /\ PerformanceCalled
    /\ eloCall.args[1] =
           Repeat([opponent_rating |-> 1500, score |-> Half], RecentWindow)
    /\ eloCall.args[2] = DefaultInitialGuess
    /\ elo = DefaultElo
    /\ eloCall.out.value = 1500

\* C23: calculate_rating_deviation given fewer than 5 results (0 to 4) returns
\* exactly 200.0, whatever the results hold and whatever current_rating is.
C23_FewResultsGiveDefaultDeviation ==
    (DeviationCalled /\ Len(eloCall.args[1]) < 5) =>
        DeviationIs(eloCall.out, DefaultDeviation)

\* four draws against opponents of the player's own rating, whose errors are
\* all 0, answered 200.0
C23_Witness ==
    /\ DeviationCalled
    /\ Len(eloCall.args[1]) = 4
    /\ AllDrawsAgainst(eloCall.args[1], eloCall.args[2])
    /\ DeviationIs(eloCall.out, DefaultDeviation)

\* C24: with 5 or more results calculate_rating_deviation depends only on
\* current_rating and the last 10 results: it returns what it returns on
\* those alone, so two lists with the same last 10 entries give the same
\* output; the output is 400 * sqrt(mean of (score - expected)^2) over those
\* entries, and it is never negative.
C24_DeviationOfLastTen ==
    (DeviationCalled /\ Len(eloCall.args[1]) >= 5) =>
        LET recent == LastResults(eloCall.args[1], 10)
            current == eloCall.args[2]
            mean == RDiv(SumSquaredErrors(current, recent),
                         FromInt(Len(recent)))
        IN  /\ eloCall.out.exc = "none"
            /\ eloCall.out.squared = RMul(FromInt(400 * 400), mean)
            /\ RLeq(Zero, eloCall.out.squared)
            /\ eloCall.out = CalculateRatingDeviation(elo, recent, current)

\* two wins and then ten draws, all against opponents of the player's own
\* rating: the wins are not looked at and the deviation is 0
C24_Witness ==
    /\ DeviationCalled
    /\ Len(eloCall.args[1]) = 12
    /\ eloCall.args[1][1].score = One
    /\ eloCall.args[1][2].score = One
    /\ AllDrawsAgainst(LastResults(eloCall.args[1], 10), eloCall.args[2])
    /\ DeviationIs(eloCall.out, 0)

\* C26: given malformed input (a negative rating, or a score outside [0, 1])
\* every EloService operation fails with an invalid-rating-input error and
\* returns no rating and no deviation.
C26_MalformedInputIsRejected ==
    MalformedCall => RaisedBy(eloCall) = "InvalidRatingInputError"

\* C30: GET /best_move never sends a terminal (game-over) position to the
\* engine: no engine command is issued for a request with such a position,
\* and the request is answered with best_move absent.
C30_LegacyKeepsTerminalFromEngine ==
    /\ \A i \in DOMAIN engineLog :
           req[engineLog[i].caller].kind = "legacy" =>
               ~IsGameOver(req[engineLog[i].caller].fen)
    /\ \A c \in Callers :
           (LegacyDone(c) /\ IsGameOver(req[c].fen)) =>
               (resp[c].status = 200 /\ resp[c].best = NoMove)

C27_OneReplyPerRequestInOrder ==
    \A c \in Callers :
        LET log == wsLog[c] IN
        \A i \in DOMAIN log :
            /\ (log[i].ev = "received" /\ log[i].msg \in Fens) =>
                   IF i = Len(log)
                   THEN pc[c] \in {"ws_call", "ws_send", "ws_error"}
                   ELSE \/ log[i + 1].ev = "closed"
                        \/ /\ log[i + 1].ev = "sent"
                           /\ log[i + 1].msg = log[i].msg
                           /\ log[i + 1].type \in {"analysis_result", "error"}
            /\ (log[i].ev = "sent" /\ log[i].msg \in Fens) =>
                   /\ i > 1
                   /\ log[i - 1].ev = "received"
                   /\ log[i - 1].msg = log[i].msg

\* two requests on one connection, the first answered with an analysis
\* result before the second, which is answered with an error
C27_Witness ==
    \E c \in Callers :
        /\ Len(wsLog[c]) = 4
        /\ wsLog[c][1] = WsEvent("received", "start", "none")
        /\ wsLog[c][2] = WsEvent("sent", "start", "analysis_result")
        /\ wsLog[c][3] = WsEvent("received", "garbage", "none")
        /\ wsLog[c][4] = WsEvent("sent", "garbage", "error")

\* C29: after the client of the analysis websocket has disconnected, the
\* handler eventually leaves its receive loop and closes the socket, and it
\* closes it exactly once, whatever receive and send failures occur.
C29_DisconnectedHandlerCloses ==
    /\ \A c \in Callers :
           (abandoned[c] /\ pc[c] \in WsOpen) ~>
               (pc[c] = "done" /\ ClosedCount(c) = 1)
    /\ [](\A c \in Callers : ClosedCount(c) <= 1)

====
